---- MODULE Spec2Model ----
(***************************************************************************)
(* Model of models/tridimensional/docking_validation/dock_variants.py:     *)
(* the driver that docks and scores two pdbs (Chimera, 3DNA) for each PAM  *)
(* variant and appends a five-line score report per (variant, program).    *)
(*                                                                         *)
(* The docking library is modelled symbolically: a pose remembers the pdb  *)
(* it was loaded from and whether the docking protocol was applied to it,  *)
(* and a score is the triple (score function, pdb, docked).  Library calls *)
(* that may raise (pose_from_pdb, dock_simple) have a raising alternative. *)
(***************************************************************************)
EXTENDS Integers, Sequences, FiniteSets, TLC

VARIABLES pc, env, pam_variants, path_to_scores, dirs, files, rosetta_init,
          vi, pidx, i, variant, program, pdb_path, clock, time_init,
          loaded_pose, dock_stats, err, visited, loads, applied, writes,
          complex_calls, csv_called

vars == <<pc, env, pam_variants, path_to_scores, dirs, files, rosetta_init,
          vi, pidx, i, variant, program, pdb_path, clock, time_init,
          loaded_pose, dock_stats, err, visited, loads, applied, writes,
          complex_calls, csv_called>>

(***************************************************************************)
(* Bounds and input pools                                                  *)
(***************************************************************************)
\* longest pam_variants list handed directly to dock_variants
MaxLen == 2

\* variant indices used in direct calls of dock_variants
CallPool == {0, 27, 63}

\* values of --start / --end tried on the command line
ArgPool == {-1, 0, 1, 2, 62, 63, 64}

\* widest end - start tried with every combination of the other options; a
\* fresh results folder is tried with every start and end of ArgPool
MaxSpan == 2

\* values of variables before their first assignment
NoError == [kind |-> "none", raised_by |-> "none", at |-> -1]
NoPose == [pdb |-> <<>>, docked |-> FALSE]

(***************************************************************************)
(* Module constants of the script                                          *)
(***************************************************************************)
dna_nts == <<"a", "c", "g", "t">>

programs == <<"Chimera", "3DNA">>

(***************************************************************************)
(* Python helpers                                                          *)
(***************************************************************************)
\* range(a, b)
PyRange(a, b) == [k \in 1..(IF b > a THEN b - a ELSE 0) |-> a + k - 1]

\* s[k] is defined for -len(s) <= k < len(s)
InIndexRange(s, k) == k >= -Len(s) /\ k < Len(s)
GetItem(s, k) == IF k >= 0 THEN s[k + 1] ELSE s[Len(s) + k + 1]

\* truth value of the complex_docking_flag argument: False, True, or a
\* string given after --complex (type=str), which is true when non-empty
Truthy(x) == x \notin {"False", "''"}

\* os.path.join on paths kept as tuples of components; '' contributes nothing
OsPathJoin(a, b) == a \o b

\* "%8.3f" % v : the formatted text of a symbolic library value
Fmt83(v) == [fmt |-> "%8.3f", of |-> v]

(***************************************************************************)
(* dock_variants line 91: the 3-letter string of a variant index           *)
(***************************************************************************)
VariantIndices(n) == <<n \div 16, (n \div 4) % 4, n % 4>>
VariantIndexable(n) == \A k \in 1..3 : InIndexRange(dna_nts, VariantIndices(n)[k])
VariantString_reversed(n) ==
    GetItem(dna_nts, n % 4) \o GetItem(dna_nts, (n \div 4) % 4) \o GetItem(dna_nts, n \div 16)
VariantString(n) ==
    GetItem(dna_nts, n \div 16) \o GetItem(dna_nts, (n \div 4) % 4) \o GetItem(dna_nts, n % 4)

\* line 94
PdbPath_fixed_program(path_to_pdbs, prog, var) ==
    OsPathJoin(path_to_pdbs, <<programs[1], "4UN3." \o var \o ".pdb">>)
PdbPath(path_to_pdbs, prog, var) ==
    OsPathJoin(path_to_pdbs, <<prog, "4UN3." \o var \o ".pdb">>)

\* line 104
ResultsFilename(var, prog) == var \o "_" \o prog \o ".txt"

(***************************************************************************)
(* Library: poses and score functions                                      *)
(***************************************************************************)
PoseFromPdb(path) == [pdb |-> path, docked |-> FALSE]
DockingApply(pose) == [pose EXCEPT !.docked = TRUE]
Score(fn, pose) == [fn |-> fn, pdb |-> pose.pdb, docked |-> pose.docked]

\* dock_simple lines 59-65: [dna_init, dna_final, fa_init, fa_final]
DockSimpleStats_late_fa_init(pose) ==
    LET dna_init  == Score("dna", pose)
        docked    == DockingApply(pose)
        fa_init   == Score("fa", docked)
        dna_final == Score("dna", docked)
        fa_final  == Score("fa", docked)
    IN  <<dna_init, dna_final, fa_init, fa_final>>
DockSimpleStats(pose) ==
    LET dna_init  == Score("dna", pose)
        fa_init   == Score("fa", pose)
        docked    == DockingApply(pose)
        dna_final == Score("dna", docked)
        fa_final  == Score("fa", docked)
    IN  <<dna_init, dna_final, fa_init, fa_final>>

(***************************************************************************)
(* write_dock_stats lines 24-31                                            *)
(***************************************************************************)
StatsLines_no_time(stats, time_diff) ==
    << [label |-> "Initial DNA score: ", value |-> Fmt83(stats[1])],
       [label |-> "Final DNA Score: ",   value |-> Fmt83(stats[2])],
       [label |-> "Initial FA score: ",  value |-> Fmt83(stats[3])],
       [label |-> "Final FA score: ",    value |-> Fmt83(stats[4])] >>
StatsLines(stats, time_diff) ==
    << [label |-> "Initial DNA score: ",  value |-> Fmt83(stats[1])],
       [label |-> "Final DNA Score: ",    value |-> Fmt83(stats[2])],
       [label |-> "Initial FA score: ",   value |-> Fmt83(stats[3])],
       [label |-> "Final FA score: ",     value |-> Fmt83(stats[4])],
       [label |-> "Total variant time: ", value |-> Fmt83(time_diff)] >>

\* the content of a file, empty when it does not exist
Content(fs, path) == IF path \in DOMAIN fs THEN fs[path] ELSE <<>>

\* open(path, 'a'); write...; close()
OpenAppendWrite_truncating(fs, path, lines) ==
    [p \in DOMAIN fs \cup {path} |-> IF p = path THEN lines ELSE fs[p]]
OpenAppendWrite(fs, path, lines) ==
    [p \in DOMAIN fs \cup {path} |-> IF p = path THEN Content(fs, path) \o lines ELSE fs[p]]

WriteDockStats(fs, score_directory, filename, stats, time_diff) ==
    OpenAppendWrite(fs, OsPathJoin(score_directory, <<filename>>), StatsLines(stats, time_diff))

(***************************************************************************)
(* __main__ lines 127-129                                                  *)
(***************************************************************************)
ValidRange_no_upper(s, e) == 0 <= s /\ s <= e
ValidRange(s, e) == 0 <= s /\ s <= e /\ e <= 63

PamVariantsToScore_exclusive(s, e) == PyRange(s, e)
PamVariantsToScore(s, e) == PyRange(s, e + 1)

\* lines 132-137: the score directory; the timestamp is one opaque component
PathToScores(output_dir) ==
    IF output_dir # "None" THEN <<output_dir>> ELSE <<"results", "<timestamp>">>

\* os.makedirs: the directory and every missing ancestor
MakeDirs(ds, path) == ds \cup {SubSeq(path, 1, n) : n \in 1..Len(path)}

(***************************************************************************)
(* Initial states: the command line, or a direct call of dock_variants     *)
(***************************************************************************)
\* a score file left by an earlier run for variant 0 with Chimera, next to
\* a file that is no score file
EarlierRun(dir, path_to_pdbs) ==
    LET pose == PoseFromPdb(PdbPath(path_to_pdbs, programs[1], VariantString(0)))
        old  == WriteDockStats(<<>>, dir, ResultsFilename(VariantString(0), programs[1]),
                               DockSimpleStats(pose), 2)
    IN  [p \in DOMAIN old \cup {OsPathJoin(dir, <<"notes.txt">>)} |->
            IF p \in DOMAIN old THEN old[p] ELSE <<[label |-> "note", value |-> Fmt83(0)]>>]

\* what the score directory may look like before the run
Disks(dir, path_to_pdbs) ==
    { [dirs |-> {}, files |-> <<>>],
      [dirs |-> {dir}, files |-> <<>>],
      [dirs |-> {dir}, files |-> EarlierRun(dir, path_to_pdbs)] }

SeqsUpTo(S, n) == UNION {[1..m -> S] : m \in 0..n}

ArgPairs(span) == {a \in ArgPool \X ArgPool : a[2] - a[1] <= span}

MainEnvs ==
    { [entry |-> "main", start |-> a[1], end |-> a[2], output_dir |-> o, pdb_dir |-> d,
       complex |-> c, csv |-> v, dirs0 |-> k.dirs, files0 |-> k.files] :
        a \in ArgPairs(MaxSpan), o \in {"out"}, d \in {<<>>, <<"pdbs">>},
        c \in {"False", "True", "'False'", "''"}, v \in {"False", "True"},
        k \in Disks(<<"out">>, <<>>) \cup Disks(<<"out">>, <<"pdbs">>) }
    \cup
    { [entry |-> "main", start |-> s, end |-> e, output_dir |-> "None", pdb_dir |-> <<>>,
       complex |-> c, csv |-> "False", dirs0 |-> {}, files0 |-> <<>>] :
        s \in ArgPool, e \in ArgPool, c \in {"False", "True"} }

CallEnvs ==
    { [entry |-> "call", start |-> 0, end |-> 0, output_dir |-> "out", pdb_dir |-> d,
       complex |-> c, csv |-> "False", dirs0 |-> k.dirs, files0 |-> k.files] :
        d \in {<<>>, <<"pdbs">>}, c \in {"False", "True"},
        k \in Disks(<<"out">>, <<>>) \cup Disks(<<"out">>, <<"pdbs">>) }

\* one run of the script for every variant index, in a fresh results folder
VariantEnvs ==
    { [entry |-> "main", start |-> n, end |-> n, output_dir |-> "None", pdb_dir |-> <<>>,
       complex |-> c, csv |-> "True", dirs0 |-> {}, files0 |-> <<>>] :
        n \in 0..63, c \in {"False", "True"} }

InitFrom(envs) ==
    /\ env \in envs
    /\ IF env.entry = "main"
       THEN pc = "main" /\ pam_variants = <<>> /\ path_to_scores = <<>>
            /\ rosetta_init = FALSE
       ELSE pc = "for_variant" /\ pam_variants \in SeqsUpTo(CallPool, MaxLen)
            /\ path_to_scores = <<env.output_dir>> /\ rosetta_init = TRUE
    /\ dirs = env.dirs0
    /\ files = env.files0
    /\ vi = 0 /\ pidx = 0 /\ i = -1
    /\ variant = "" /\ program = "" /\ pdb_path = <<>>
    /\ clock = 0 /\ time_init = 0
    /\ loaded_pose = NoPose /\ dock_stats = <<>>
    /\ err = NoError
    /\ visited = <<>> /\ loads = <<>> /\ applied = <<>> /\ writes = <<>>
    /\ complex_calls = 0 /\ csv_called = FALSE

Init == InitFrom(MainEnvs \cup CallEnvs)
InitVariant == InitFrom(VariantEnvs)

\* the position of the current (variant, program) pair in processing order
PairPos == (vi - 1) * Len(programs) + (pidx - 1)

Raise(kind, by, at) ==
    /\ pc' = "error"
    /\ err' = [kind |-> kind, raised_by |-> by, at |-> at]

(***************************************************************************)
(* __main__                                                                *)
(***************************************************************************)
\* lines 127-129: assert, then range(start, end + 1)
CheckRange ==
    /\ pc = "main"
    /\ IF ValidRange(env.start, env.end)
       THEN /\ pam_variants' = PamVariantsToScore(env.start, env.end)
            /\ pc' = "setup_output"
            /\ err' = err
       ELSE /\ Raise("AssertionError", "main", -1)
            /\ pam_variants' = pam_variants
    /\ UNCHANGED <<env, path_to_scores, dirs, files, rosetta_init, vi, pidx, i,
                   variant, program, pdb_path, clock, time_init, loaded_pose,
                   dock_stats, visited, loads, applied, writes, complex_calls,
                   csv_called>>

\* lines 131-139
SetupOutput ==
    /\ pc = "setup_output"
    /\ path_to_scores' = PathToScores(env.output_dir)
    /\ dirs' = IF path_to_scores' \in dirs THEN dirs ELSE MakeDirs(dirs, path_to_scores')
    /\ pc' = "init"
    /\ UNCHANGED <<env, pam_variants, files, rosetta_init, vi, pidx, i, variant,
                   program, pdb_path, clock, time_init, loaded_pose, dock_stats,
                   err, visited, loads, applied, writes, complex_calls, csv_called>>

\* lines 142-143: init(...), then the call of dock_variants
InitRosetta ==
    /\ pc = "init"
    /\ rosetta_init' = TRUE
    /\ pc' = "for_variant"
    /\ UNCHANGED <<env, pam_variants, path_to_scores, dirs, files, vi, pidx, i,
                   variant, program, pdb_path, clock, time_init, loaded_pose,
                   dock_stats, err, visited, loads, applied, writes,
                   complex_calls, csv_called>>

\* lines 145-147
Finish ==
    /\ pc = "returned"
    /\ env.entry = "main"
    /\ csv_called' = Truthy(env.csv)
    /\ pc' = "done"
    /\ UNCHANGED <<env, pam_variants, path_to_scores, dirs, files, rosetta_init,
                   vi, pidx, i, variant, program, pdb_path, clock, time_init,
                   loaded_pose, dock_stats, err, visited, loads, applied, writes,
                   complex_calls>>

(***************************************************************************)
(* dock_variants                                                           *)
(***************************************************************************)
\* lines 90-91: next variant index and its string, or line 107
ForVariant ==
    /\ pc = "for_variant"
    /\ IF vi < Len(pam_variants)
       THEN /\ vi' = vi + 1
            /\ i' = pam_variants[vi + 1]
            /\ pidx' = 0
            /\ visited' = Append(visited, i')
            /\ IF VariantIndexable(i')
               THEN variant' = VariantString(i') /\ pc' = "for_program" /\ err' = err
               ELSE variant' = variant /\ Raise("IndexError", "dock_variants", vi * Len(programs))
       ELSE /\ pc' = "returned"
            /\ UNCHANGED <<vi, i, pidx, visited, variant, err>>
    /\ UNCHANGED <<env, pam_variants, path_to_scores, dirs, files, rosetta_init,
                   program, pdb_path, clock, time_init, loaded_pose, dock_stats,
                   loads, applied, writes, complex_calls, csv_called>>

\* lines 92-96: next program, its pdb path, start of the timing
ForProgram ==
    /\ pc = "for_program"
    /\ IF pidx < Len(programs)
       THEN /\ pidx' = pidx + 1
            /\ program' = programs[pidx + 1]
            /\ pdb_path' = PdbPath(env.pdb_dir, program', variant)
            /\ time_init' = clock
            /\ pc' = "load"
       ELSE /\ pc' = "for_variant"
            /\ UNCHANGED <<pidx, program, pdb_path, time_init>>
    /\ UNCHANGED <<env, pam_variants, path_to_scores, dirs, files, rosetta_init,
                   vi, i, variant, clock, loaded_pose, dock_stats, err, visited,
                   loads, applied, writes, complex_calls, csv_called>>

\* line 97
LoadPose ==
    /\ pc = "load"
    /\ loaded_pose' = PoseFromPdb(pdb_path)
    /\ loads' = Append(loads, pdb_path)
    /\ clock' = clock + 1
    /\ pc' = "dock"
    /\ UNCHANGED <<env, pam_variants, path_to_scores, dirs, files, rosetta_init,
                   vi, pidx, i, variant, program, pdb_path, time_init, dock_stats,
                   err, visited, applied, writes, complex_calls, csv_called>>

\* line 97 when pose_from_pdb raises, caught and the pair skipped
LoadPoseRaises_swallowed ==
    /\ pc = "load"
    /\ pc' = "for_program"
    /\ UNCHANGED <<env, pam_variants, path_to_scores, dirs, files, rosetta_init,
                   vi, pidx, i, variant, program, pdb_path, clock, time_init,
                   loaded_pose, dock_stats, err, visited, loads, applied, writes,
                   complex_calls, csv_called>>
\* line 97 when pose_from_pdb raises: nothing catches it
LoadPoseRaises ==
    /\ pc = "load"
    /\ Raise("LibraryError", "pose_from_pdb", PairPos)
    /\ UNCHANGED <<env, pam_variants, path_to_scores, dirs, files, rosetta_init,
                   vi, pidx, i, variant, program, pdb_path, clock, time_init,
                   loaded_pose, dock_stats, visited, loads, applied, writes,
                   complex_calls, csv_called>>

\* lines 100-101 with dock_simple lines 48-65
DockSimple ==
    /\ pc = "dock"
    /\ ~Truthy(env.complex)
    /\ dock_stats' = DockSimpleStats(loaded_pose)
    /\ loaded_pose' = DockingApply(loaded_pose)
    /\ applied' = Append(applied, loaded_pose.pdb)
    /\ clock' = clock + 1
    /\ pc' = "write"
    /\ UNCHANGED <<env, pam_variants, path_to_scores, dirs, files, rosetta_init,
                   vi, pidx, i, variant, program, pdb_path, time_init, err,
                   visited, loads, writes, complex_calls, csv_called>>

\* lines 100-101 when a library call of dock_simple raises
DockSimpleRaises ==
    /\ pc = "dock"
    /\ ~Truthy(env.complex)
    /\ Raise("LibraryError", "dock_simple", PairPos)
    /\ UNCHANGED <<env, pam_variants, path_to_scores, dirs, files, rosetta_init,
                   vi, pidx, i, variant, program, pdb_path, clock, time_init,
                   loaded_pose, dock_stats, visited, loads, applied, writes,
                   complex_calls, csv_called>>

\* lines 98-99 with dock_complex line 75: a stub that returns nothing
DockComplex_returns ==
    /\ pc = "dock"
    /\ Truthy(env.complex)
    /\ complex_calls' = complex_calls + 1
    /\ pc' = "write"
    /\ UNCHANGED <<env, pam_variants, path_to_scores, dirs, files, rosetta_init,
                   vi, pidx, i, variant, program, pdb_path, clock, time_init,
                   loaded_pose, dock_stats, err, visited, loads, applied, writes,
                   csv_called>>
\* lines 98-99 with dock_complex line 75: the raise statement always raises,
\* a NameError unless the library's star import binds the name `exception`
DockComplex ==
    /\ pc = "dock"
    /\ Truthy(env.complex)
    /\ complex_calls' = complex_calls + 1
    /\ \E kind \in {"NameError", "Exception"} : Raise(kind, "dock_complex", PairPos)
    /\ UNCHANGED <<env, pam_variants, path_to_scores, dirs, files, rosetta_init,
                   vi, pidx, i, variant, program, pdb_path, clock, time_init,
                   loaded_pose, dock_stats, visited, loads, applied, writes,
                   csv_called>>

\* lines 102-106 with write_dock_stats; open() raises when the directory is missing
WriteStats ==
    /\ pc = "write"
    /\ IF Len(dock_stats) = 0
       THEN /\ Raise("UnboundLocalError", "dock_variants", PairPos)
            /\ UNCHANGED <<files, writes>>
       ELSE IF path_to_scores \in dirs
       THEN /\ files' = WriteDockStats(files, path_to_scores,
                                       ResultsFilename(variant, program),
                                       dock_stats, clock - time_init)
            /\ writes' = Append(writes, ResultsFilename(variant, program))
            /\ pc' = "for_program"
            /\ err' = err
       ELSE /\ Raise("IOError", "write_dock_stats", PairPos)
            /\ UNCHANGED <<files, writes>>
    /\ UNCHANGED <<env, pam_variants, path_to_scores, dirs, rosetta_init, vi, pidx,
                   i, variant, program, pdb_path, clock, time_init, loaded_pose,
                   dock_stats, visited, loads, applied, complex_calls, csv_called>>

Next ==
    \/ CheckRange
    \/ SetupOutput
    \/ InitRosetta
    \/ Finish
    \/ ForVariant
    \/ ForProgram
    \/ LoadPose
    \/ LoadPoseRaises
    \/ DockSimple
    \/ DockSimpleRaises
    \/ DockComplex
    \/ WriteStats

Spec == Init /\ [][Next]_vars

\* the script run once per variant index 0..63
SpecVariant == InitVariant /\ [][Next]_vars

(***************************************************************************)
(* Vocabulary of the properties                                            *)
(***************************************************************************)
Range(q) == {q[k] : k \in 1..Len(q)}
Distinct(q) == \A a, b \in 1..Len(q) : a # b => q[a] # q[b]
Count(q, x) == Cardinality({k \in 1..Len(q) : q[k] = x})
LastLines(q, n) == SubSeq(q, Len(q) - n + 1, Len(q))

\* dock_variants has returned normally
Completed == pc \in {"returned", "done"}

\* the letter of a base-4 digit, and the name whose letters are the base-4
\* digits of n, most significant first
Letter(d) == CASE d = 0 -> "a" [] d = 1 -> "c" [] d = 2 -> "g" [] d = 3 -> "t"
Base4Name(n) ==
    LET d1 == CHOOSE a \in 0..3 : 16 * a <= n /\ n < 16 * (a + 1)
        d2 == CHOOSE b \in 0..3 : 4 * b <= n - 16 * d1 /\ n - 16 * d1 < 4 * (b + 1)
        d3 == n - 16 * d1 - 4 * d2
    IN  Letter(d1) \o Letter(d2) \o Letter(d3)
ThreeLetterNames == {Letter(d[1]) \o Letter(d[2]) \o Letter(d[3]) : d \in [1..3 -> 0..3]}

\* the pair processed at position k (from 0): variants in list order, and
\* within a variant Chimera before 3DNA
PairVariant(k) == pam_variants[(k \div 2) + 1]
PairProgram(k) == IF k % 2 = 0 THEN "Chimera" ELSE "3DNA"
PairPdb(n, prog) == env.pdb_dir \o <<prog, "4UN3." \o Base4Name(n) \o ".pdb">>
PairFile(n, prog) == Base4Name(n) \o "_" \o prog \o ".txt"
ScorePath(name) == path_to_scores \o <<name>>

\* the command line satisfies 0 <= start <= end <= 63
ArgsInRange == 0 <= env.start /\ env.start <= env.end /\ env.end <= 63

\* the complex_docking_flag is true for Python
ComplexFlag == env.complex \in {"True", "'False'"}

ReportLabels ==
    <<"Initial DNA score: ", "Final DNA Score: ", "Initial FA score: ",
      "Final FA score: ", "Total variant time: ">>

\* five lines: initial DNA, final DNA, initial FA, final FA, total time
IsReport(ls) ==
    /\ Len(ls) = 5
    /\ \A k \in 1..5 : ls[k].label = ReportLabels[k]
    /\ ls[1].value.of.fn = "dna" /\ ~ls[1].value.of.docked
    /\ ls[2].value.of.fn = "dna" /\ ls[2].value.of.docked
    /\ ls[3].value.of.fn = "fa" /\ ~ls[3].value.of.docked
    /\ ls[4].value.of.fn = "fa" /\ ls[4].value.of.docked
    /\ ls[5].value.of \in Nat

(***************************************************************************)
(* C1                                                                      *)
(***************************************************************************)
\* C1: for every i in 0..63 the variant string is the 3-letter name whose
\* letters are the base-4 digits of i, most significant first (a=0, c=1,
\* g=2, t=3; 0 gives aaa, 63 gives ttt), and the mapping is a bijection
\* between 0..63 and the 64 three-letter names over {a,c,g,t}.
C1_VariantNaming ==
    /\ pc \in {"for_program", "load", "dock", "write"} =>
          /\ i \in 0..63
          /\ variant = Base4Name(i)
          /\ (i = 0 => variant = "aaa") /\ (i = 63 => variant = "ttt")
          /\ \A n \in 0..63 : VariantString(n) = variant => n = i
    /\ pc = "returned" =>
          /\ \A n \in 0..63 : VariantIndexable(n) /\ VariantString(n) = Base4Name(n)
          /\ {VariantString(n) : n \in 0..63} = ThreeLetterNames
          /\ Cardinality(ThreeLetterNames) = 64

C1_Witness == pc = "write" /\ i = 63 /\ variant = "ttt" /\ program = "3DNA"

(***************************************************************************)
(* C2                                                                      *)
(***************************************************************************)
\* C2: after a run that completes without error on distinct variant indices
\* into an initially empty score directory, every score file holds exactly
\* five lines in the order initial DNA score, final DNA score, initial FA
\* score, final FA score, total variant time.
C2_FiveLinesPerFile ==
    (Completed /\ err = NoError /\ Distinct(pam_variants) /\ env.files0 = <<>>) =>
        /\ \A p \in DOMAIN files : IsReport(files[p])
        /\ \A name \in Range(writes) : ScorePath(name) \in DOMAIN files

C2_Witness ==
    /\ Completed /\ err = NoError /\ Distinct(pam_variants) /\ env.files0 = <<>>
    /\ Cardinality(DOMAIN files) >= 4
    /\ \A p \in DOMAIN files : Len(files[p]) = 5

C4_InclusiveRange ==
    (env.entry = "main" /\ ArgsInRange) =>
        /\ err.kind # "AssertionError"
        /\ pc # "main" =>
              /\ Len(pam_variants) = env.end - env.start + 1
              /\ \A k \in 1..Len(pam_variants) : pam_variants[k] = env.start + k - 1
        /\ Len(visited) <= env.end - env.start + 1
        /\ \A k \in 1..Len(visited) : visited[k] = env.start + k - 1
        /\ Completed =>
              /\ Len(visited) = env.end - env.start + 1
              /\ ~ComplexFlag => Len(applied) = 2 * (env.end - env.start + 1)

C4_Witness ==
    /\ env.entry = "main" /\ env.start = 0 /\ env.end = 63
    /\ pc = "done" /\ Len(visited) = 64 /\ Len(applied) = 128

(***************************************************************************)
(* C5                                                                      *)
(***************************************************************************)
\* C5: with complex_docking_flag true and a non-empty variant list the run
\* never completes, writes no score file and applies no docking protocol;
\* once the first pair's structure is loaded it ends with the error raised
\* by dock_complex on that first pair (an error of loading the first pair
\* ends it earlier).  With the flag false dock_complex is never called.
C5_ComplexNotImplemented ==
    /\ ComplexFlag =>
          /\ writes = <<>> /\ applied = <<>> /\ files = env.files0
          /\ Len(loads) <= 1 /\ complex_calls <= 1
          /\ (Completed => pam_variants = <<>>)
          /\ pc = "error" =>
                \/ err.raised_by = "main" /\ err.kind = "AssertionError"
                \/ err.raised_by = "pose_from_pdb" /\ err.at = 0 /\ loads = <<>>
                \/ /\ err.raised_by = "dock_complex" /\ err.at = 0
                   /\ complex_calls = 1
                   /\ loads = <<PairPdb(pam_variants[1], "Chimera")>>
          /\ Len(loads) = 1 => pc \in {"dock", "error"}
          /\ (Len(loads) = 1 /\ pc = "error") => err.raised_by = "dock_complex"
    /\ ~ComplexFlag => complex_calls = 0

C5_Witness ==
    /\ ComplexFlag /\ pc = "error" /\ err.raised_by = "dock_complex"
    /\ Len(pam_variants) >= 2 /\ Len(loads) = 1 /\ writes = <<>>

(***************************************************************************)
(* C6                                                                      *)
(***************************************************************************)
\* a step of the run that calls write_dock_stats: the file keeps its
\* previous content as a prefix and gains five lines, and no other file of
\* the score directory changes
C6_WriteAppends ==
    IF writes' # writes
    THEN LET f == ScorePath(writes'[Len(writes')])
         IN  /\ Len(writes') = Len(writes) + 1
             /\ DOMAIN files' = DOMAIN files \cup {f}
             /\ Len(files'[f]) = Len(Content(files, f)) + 5
             /\ SubSeq(files'[f], 1, Len(Content(files, f))) = Content(files, f)
             /\ IsReport(LastLines(files'[f], 5))
             /\ \A g \in DOMAIN files \ {f} : files'[g] = files[g]
    ELSE files' = files

\* a file written k times by the run holds 5*k lines more than before it
C6_LineCount ==
    /\ \A name \in Range(writes) :
          Len(Content(files, ScorePath(name)))
             = Len(Content(env.files0, ScorePath(name))) + 5 * Count(writes, name)
    /\ \A p \in DOMAIN files :
          (\A name \in Range(writes) : p # ScorePath(name)) =>
              (p \in DOMAIN env.files0 /\ files[p] = env.files0[p])

\* C6: write_dock_stats appends and never truncates: an existing score file
\* (repeated variant index, or a re-run into the same directory) keeps its
\* content as a prefix and gains five lines, so a file written k times holds
\* 5*k lines; no other file in the score directory is changed by the call.
C6_AppendNeverTruncates == [][C6_WriteAppends]_vars /\ []C6_LineCount

C6_Witness ==
    \E name \in Range(writes) :
        /\ Count(writes, name) = 2
        /\ Len(Content(env.files0, ScorePath(name))) = 5
        /\ Len(files[ScorePath(name)]) = 15

(***************************************************************************)
(* C7                                                                      *)
(***************************************************************************)
\* what a label of a score line says was measured
LabelledRight(line) ==
    /\ line.label = "Initial DNA score: " =>
          line.value.of.fn = "dna" /\ ~line.value.of.docked
    /\ line.label = "Final DNA Score: " =>
          line.value.of.fn = "dna" /\ line.value.of.docked
    /\ line.label = "Initial FA score: " =>
          line.value.of.fn = "fa" /\ ~line.value.of.docked
    /\ line.label = "Final FA score: " =>
          line.value.of.fn = "fa" /\ line.value.of.docked

\* C7: dock_simple takes both initial scores before the docking protocol is
\* applied and both final scores after it and returns [dna_init, dna_final,
\* fa_init, fa_final]; write_dock_stats labels positions 0..3 initial DNA,
\* final DNA, initial FA, final FA, so every value is written under the
\* label of the score function and the moment it was measured with.
C7_LabelsMatchMeasurement ==
    /\ (pc = "write" /\ ~ComplexFlag) =>
          /\ dock_stats = << [fn |-> "dna", pdb |-> pdb_path, docked |-> FALSE],
                             [fn |-> "dna", pdb |-> pdb_path, docked |-> TRUE],
                             [fn |-> "fa",  pdb |-> pdb_path, docked |-> FALSE],
                             [fn |-> "fa",  pdb |-> pdb_path, docked |-> TRUE] >>
          /\ loaded_pose.docked
    /\ \A name \in Range(writes) :
          LET ls == files[ScorePath(name)]
          IN  \A k \in 1..Len(ls) :
                 /\ ls[k].label = ReportLabels[((k - 1) % 5) + 1]
                 /\ LabelledRight(ls[k])

C7_Witness ==
    /\ pc = "for_program" /\ Len(writes) >= 3
    /\ \E name \in Range(writes) : Len(files[ScorePath(name)]) >= 10

(***************************************************************************)
(* C8                                                                      *)
(***************************************************************************)
\* C8: pairs are processed in the order of the variant list and, within a
\* variant, Chimera before 3DNA; if loading or docking the pair at position
\* k raises, the run ends with that error, the score files of all pairs
\* before k are completely written and nothing is written for the pair at
\* position k or any later pair.
C8_ErrorStopsRun ==
    /\ \A k \in 1..Len(loads) :
          loads[k] = PairPdb(PairVariant(k - 1), PairProgram(k - 1))
    /\ \A k \in 1..Len(writes) :
          writes[k] = PairFile(PairVariant(k - 1), PairProgram(k - 1))
    /\ Len(writes) <= Len(loads)
    /\ (pc = "error" /\ err.raised_by \in {"pose_from_pdb", "dock_simple", "dock_complex"}) =>
          /\ err.kind # "none"
          /\ err.at = Len(writes)
          /\ Len(loads) = IF err.raised_by = "pose_from_pdb" THEN err.at ELSE err.at + 1
          /\ \A name \in Range(writes) :
                /\ Len(files[ScorePath(name)])
                     = Len(Content(env.files0, ScorePath(name))) + 5 * Count(writes, name)
                /\ IsReport(LastLines(files[ScorePath(name)], 5))
    /\ Completed => err = NoError

C8_Witness ==
    /\ pc = "error" /\ err.raised_by = "dock_simple" /\ err.at = 3
    /\ Len(writes) = 3 /\ Len(loads) = 4

(***************************************************************************)
(* C9                                                                      *)
(***************************************************************************)
\* C9: when --start/--end violate 0 <= start <= end <= 63 the run aborts on
\* the assertion, and then no output directory has been created, the
\* docking library has not been initialised, no structure has been loaded
\* and no score file has been written.
C9_AssertBeforeSideEffects ==
    (env.entry = "main" /\ ~ArgsInRange) =>
        /\ pc \in {"main", "error"}
        /\ pc = "error" => (err.kind = "AssertionError" /\ err.raised_by = "main")
        /\ dirs = env.dirs0 /\ files = env.files0
        /\ ~rosetta_init
        /\ loads = <<>> /\ applied = <<>> /\ writes = <<>> /\ visited = <<>>

C9_Witness ==
    /\ env.entry = "main" /\ env.start = 0 /\ env.end = 64
    /\ pc = "error" /\ err.kind = "AssertionError"
    /\ dirs = {} /\ ~rosetta_init

====
